---- MODULE Spec2Model ----
(***************************************************************************)
(* kamaln7/redirector: the route table, the redirect executor and the      *)
(* wrapped-process supervisor.                                             *)
(*                                                                         *)
(* Two programs live in the repository: the redirector command with its    *)
(* pkg/redirector package (src/main.go) and the older standalone program   *)
(* (src/unnamed/part_000).  `prog' selects which one a run executes.       *)
(*                                                                         *)
(* Strings are sequences of atoms.  An atom is an indivisible piece of     *)
(* text: a name ("example.com", "foo"), a separator ("/", " ", "'", "?",   *)
(* "://"), a digit, or a keyword ("path", "query", "code=").               *)
(***************************************************************************)
EXTENDS Integers, Sequences, FiniteSets, TLC

\* ------------------------------------------------------------------ bounds
MaxRoutes   == 2    \* route specifications given to one run
MaxHandlers == 2    \* request handlers in flight at once
MaxRequests == 2    \* requests the clients send in one run
MaxSignals  == 2    \* signals the OS delivers to the parent in one run

\* ------------------------------------------------------- program constants
DefaultCode      == 302     \* NewRoute / parseRoute
DefaultPort      == 8080    \* main: port := "8080"
DefaultWrapPort  == 8000    \* NewWrapCommand: -port default
ChanSigCap       == 1       \* make(chan os.Signal, 1)

\* ------------------------------------------------------------ text helpers
Digits == <<"0", "1", "2", "3", "4", "5", "6", "7", "8", "9">>

IsDigit(a) == \E i \in 1..10 : Digits[i] = a

DigitVal(a) == (CHOOSE i \in 1..10 : Digits[i] = a) - 1

\* first index of atom a in s, 0 when absent
IndexOf(s, a) ==
  IF \E i \in 1..Len(s) : s[i] = a
  THEN CHOOSE i \in 1..Len(s) : s[i] = a /\ \A j \in 1..(i-1) : s[j] # a
  ELSE 0

IsPrefix(p, s) == Len(p) <= Len(s) /\ SubSeq(s, 1, Len(p)) = p

\* strings.Trim(s, "/")
RECURSIVE TrimLeftSlash(_)
TrimLeftSlash(s) ==
  IF s # <<>> /\ Head(s) = "/" THEN TrimLeftSlash(Tail(s)) ELSE s

RECURSIVE TrimRightSlash(_)
TrimRightSlash(s) ==
  IF s # <<>> /\ s[Len(s)] = "/" THEN TrimRightSlash(SubSeq(s, 1, Len(s)-1)) ELSE s

\* strings.TrimLeft in place of strings.Trim
TrimSlashesLeftOnly(s) == TrimLeftSlash(s)

TrimSlashes(s) == TrimRightSlash(TrimLeftSlash(s))

\* the non-empty "/"-separated elements of a path, in order
RECURSIVE PathElems(_)
PathElems(s) ==
  IF s = <<>> THEN <<>>
  ELSE IF Head(s) = "/" THEN PathElems(Tail(s))
  ELSE <<Head(s)>> \o PathElems(Tail(s))

RECURSIVE JoinElems(_)
JoinElems(es) ==
  IF es = <<>> THEN <<>>
  ELSE IF Len(es) = 1 THEN es
  ELSE <<Head(es), "/">> \o JoinElems(Tail(es))

\* path.Clean on a non-empty path without "." and ".." elements: repeated
\* separators collapse, a trailing separator goes, a rooted path stays rooted.
PathClean(s) ==
  LET rooted == s # <<>> /\ Head(s) = "/"
      body   == JoinElems(PathElems(s))
  IN  IF rooted THEN <<"/">> \o body
      ELSE IF body = <<>> THEN <<".">>
      ELSE body

\* path.Join(a, b): empty elements are ignored, the rest joined by "/" and cleaned
PathJoin(a, b) ==
  IF a = <<>> /\ b = <<>> THEN <<>>
  ELSE IF a = <<>> THEN PathClean(b)
  ELSE IF b = <<>> THEN PathClean(a)
  ELSE PathClean(a \o <<"/">> \o b)

\* ------------------------------------------------- shellquote.Split(s)
\* Tokens are separated by " " outside single quotes; a quote left open is an
\* error.  st = [out, cur, started, inQuote].
RECURSIVE SplitRun(_, _)
SplitRun(s, st) ==
  IF s = <<>> THEN
    IF st.inQuote THEN [ok |-> FALSE, parts |-> <<>>]
    ELSE [ok |-> TRUE,
          parts |-> IF st.started THEN Append(st.out, st.cur) ELSE st.out]
  ELSE LET a == Head(s) IN
    IF a = "'" THEN
      SplitRun(Tail(s), [st EXCEPT !.inQuote = ~st.inQuote, !.started = TRUE])
    ELSE IF a = " " /\ ~st.inQuote THEN
      SplitRun(Tail(s),
               IF st.started
               THEN [out |-> Append(st.out, st.cur), cur |-> <<>>,
                     started |-> FALSE, inQuote |-> FALSE]
               ELSE st)
    ELSE
      SplitRun(Tail(s), [st EXCEPT !.cur = Append(st.cur, a), !.started = TRUE])

ShellSplit(s) ==
  SplitRun(s, [out |-> <<>>, cur |-> <<>>, started |-> FALSE, inQuote |-> FALSE])

\* ------------------------------------------------------------ net/url
\* url.Parse(dest): "%" stands for an invalid escape (a parse error); the
\* query is cut at "?"; a scheme is what precedes "://"; without "//" there is
\* no authority and the whole text is the path.
UrlParse(d) ==
  LET q     == IndexOf(d, "?")
      rest  == IF q = 0 THEN d ELSE SubSeq(d, 1, q - 1)
      query == IF q = 0 THEN <<>> ELSE SubSeq(d, q + 1, Len(d))
  IN
  IF IndexOf(d, "%") # 0 THEN
    [ok |-> FALSE,
     url |-> [Scheme |-> "", Host |-> <<>>, Path |-> <<>>, RawQuery |-> <<>>]]
  ELSE IF Len(rest) >= 2 /\ rest[2] = "://" THEN
    LET after == SubSeq(rest, 3, Len(rest))
        sl    == IndexOf(after, "/")
    IN [ok |-> TRUE,
        url |-> [Scheme   |-> rest[1],
                 Host     |-> IF sl = 0 THEN after ELSE SubSeq(after, 1, sl - 1),
                 Path     |-> IF sl = 0 THEN <<>> ELSE SubSeq(after, sl, Len(after)),
                 RawQuery |-> query]]
  ELSE
    [ok |-> TRUE,
     url |-> [Scheme |-> "", Host |-> <<>>, Path |-> rest, RawQuery |-> query]]

\* escape(host, encodeHost): "/" is not allowed in a host and is percent-encoded
RECURSIVE EscapeHost(_)
EscapeHost(h) ==
  IF h = <<>> THEN <<>>
  ELSE <<IF Head(h) = "/" THEN "%2F" ELSE Head(h)>> \o EscapeHost(Tail(h))

\* (*url.URL).String()
UrlString(u) ==
  (IF u.Scheme # "" THEN <<u.Scheme, "://">> ELSE <<>>)
  \o EscapeHost(u.Host)
  \o (IF u.Path # <<>> /\ Head(u.Path) # "/" /\ u.Host # <<>> THEN <<"/">> ELSE <<>>)
  \o u.Path
  \o (IF u.RawQuery # <<>> THEN <<"?">> \o u.RawQuery ELSE <<>>)

\* ------------------------------------------------------------ strconv.Atoi
RECURSIVE DecimalValue(_, _)
DecimalValue(s, acc) ==
  IF s = <<>> THEN acc ELSE DecimalValue(Tail(s), acc * 10 + DigitVal(Head(s)))

\* a conversion that gives 0 for a text that is no number, with no error
AtoiLenient(s) ==
  IF s # <<>> /\ \A i \in 1..Len(s) : IsDigit(s[i])
  THEN [ok |-> TRUE, n |-> DecimalValue(s, 0)]
  ELSE [ok |-> TRUE, n |-> 0]

Atoi(s) ==
  IF s # <<>> /\ \A i \in 1..Len(s) : IsDigit(s[i])
  THEN [ok |-> TRUE, n |-> DecimalValue(s, 0)]
  ELSE [ok |-> FALSE, n |-> 0]

\* fmt.Sprint(n) for an unsigned n
RECURSIVE Sprint(_)
Sprint(n) ==
  IF n < 10 THEN <<Digits[n + 1]>> ELSE Append(Sprint(n \div 10), Digits[(n % 10) + 1])

\* ------------------------------------------------------------ Route
NoRoute == [Pattern |-> <<>>,
            Destination |-> [Scheme |-> "", Host |-> <<>>, Path |-> <<>>, RawQuery |-> <<>>],
            Code |-> 0, CarryPath |-> FALSE, CarryQuery |-> FALSE]

\* the flag loop of NewRoute over parts[2:]; r = [ok, route]
RECURSIVE ApplyFlags(_, _)
ApplyFlags(parts, r) ==
  IF parts = <<>> \/ ~r.ok THEN r
  ELSE LET part == Head(parts) IN
    IF part = <<"path">> THEN
      ApplyFlags(Tail(parts), [r EXCEPT !.route.CarryPath = TRUE])
    ELSE IF part = <<"query">> THEN
      ApplyFlags(Tail(parts), [r EXCEPT !.route.CarryQuery = TRUE])
    ELSE IF part # <<>> /\ Head(part) = "code=" THEN
      LET code == Atoi(Tail(part)) IN
      IF code.ok
      THEN ApplyFlags(Tail(parts), [r EXCEPT !.route.Code = code.n])
      ELSE [ok |-> FALSE, err |-> "code", route |-> NoRoute]
    ELSE ApplyFlags(Tail(parts), r)

\* NewRoute(s) of pkg/redirector, and parseRoute(config) of the standalone
\* program, which is the same text.  A failure returns a nil route.
NewRoute(s) ==
  LET sp == ShellSplit(s) IN
  IF ~sp.ok THEN [ok |-> FALSE, err |-> "quote", route |-> NoRoute]
  ELSE IF Len(sp.parts) < 2 THEN [ok |-> FALSE, err |-> "missing", route |-> NoRoute]
  ELSE LET p == UrlParse(sp.parts[2]) IN
    IF ~p.ok THEN [ok |-> FALSE, err |-> "dest", route |-> NoRoute]
    ELSE
      LET u1 == IF p.url.Scheme = "" THEN [p.url EXCEPT !.Scheme = "https"] ELSE p.url
          u2 == IF u1.Host = <<>> THEN [u1 EXCEPT !.Host = u1.Path, !.Path = <<>>] ELSE u1
      IN ApplyFlags(SubSeq(sp.parts, 3, Len(sp.parts)),
                    [ok |-> TRUE, err |-> "",
                     route |-> [Pattern |-> sp.parts[1], Destination |-> u2,
                                Code |-> DefaultCode,
                                CarryPath |-> FALSE, CarryQuery |-> FALSE]])

\* a key that leaves the host out
requestToRoutePatternPathOnly(req) == <<"/">> \o TrimSlashes(req.Path)

\* requestToRoutePattern(req): Host + "/" + strings.Trim(Path, "/")
requestToRoutePattern(req) == <<req.Host, "/">> \o TrimSlashes(req.Path)

\* ------------------------------------------------ radix.PatternTrie
\* The trie is a map from pattern to route.  Add rejects a pattern that is
\* already present and leaves the table unchanged.
TrieAdd(t, pattern, route) ==
  IF pattern \in DOMAIN t
  THEN [table |-> t, has |-> TRUE]
  ELSE [table |-> t @@ (pattern :> route), has |-> FALSE]

\* a pattern ending in "*" matches every key that extends its literal prefix
WildcardPrefix(pattern) == SubSeq(pattern, 1, Len(pattern) - 1)

IsWildcard(pattern) == pattern # <<>> /\ pattern[Len(pattern)] = "*"

\* Lookup: an exact pattern first, else the wildcard pattern with the longest
\* literal prefix, else not found.
TrieLookup(t, key) ==
  LET wild == {p \in DOMAIN t : IsWildcard(p) /\ IsPrefix(WildcardPrefix(p), key)} IN
  IF key \in DOMAIN t THEN [ok |-> TRUE, pattern |-> key]
  ELSE IF wild # {} THEN
    [ok |-> TRUE,
     pattern |-> CHOOSE p \in wild : \A q \in wild : Len(q) <= Len(p)]
  ELSE [ok |-> FALSE, pattern |-> <<>>]

\* AddRoute that also rejects a pattern overlapping a wildcard of the table,
\* or a wildcard overlapping a pattern of the table
AddRouteRejectOverlap(t, route) ==
  LET a == TrieAdd(t, route.Pattern, route)
      overlap ==
        \E p \in DOMAIN t :
          \/ IsWildcard(p) /\ IsPrefix(WildcardPrefix(p), route.Pattern)
          \/ IsWildcard(route.Pattern) /\ IsPrefix(WildcardPrefix(route.Pattern), p)
  IN IF overlap THEN [table |-> t, err |-> TRUE]
     ELSE [table |-> a.table, err |-> a.has]

\* AddRoute that never reports a pattern already present
AddRouteNoError(t, route) ==
  [table |-> TrieAdd(t, route.Pattern, route).table, err |-> FALSE]

\* (*Redirector).AddRoute(route): the error reports a pattern already present
AddRoute(t, route) ==
  LET a == TrieAdd(t, route.Pattern, route) IN [table |-> a.table, err |-> a.has]

\* ------------------------------------------------------------ inputs
Progs == {"redirector", "standalone"}

\* the first argument after the flags: none, wrap, or something unrecognized
Commands == {"", "wrap", "serve"}

\* $PORT: unset, or a decimal text (here one with a leading zero)
PortEnvs == {<<>>, <<"0", "8", "0", "8", "0">>}

\* wrap -port
WrapPorts == {DefaultWrapPort, DefaultPort}

SpecExample ==
  <<"www.example.com", "/", "*", " ", "example.com", " ", "path", " ", "query",
    " ", "code=", "3", "0", "1">>
SpecSamePattern ==
  <<"www.example.com", "/", "*", " ", "http", "://", "other.example", "/", "blog",
    " ", "path">>
SpecExact ==
  <<"www.example.com", "/", "foo", " ", "'", "https", "://", "example.com", "/", "blog", "'",
    " ", "query", " ", "permanent">>
\* the README's blog example: a bare host with a path as destination
SpecBlog ==
  <<"www.example.com", "/", "*", " ", "example.com", "/", "blog", " ", "path",
    " ", "code=", "3", "0", "1">>
SpecOneToken  == <<"www.example.com", "/", "*">>
SpecBadQuote  == <<"'", "a.com", "/", "*", " ", "example.com">>
SpecBadDest   == <<"a.com", "/", "*", " ", "%">>
SpecBadCode   == <<"a.com", "/", "*", " ", "example.com", " ", "code=", "x">>

GoodSpecs == {SpecExample, SpecSamePattern, SpecExact}
BadSpecs  == {SpecOneToken, SpecBadQuote, SpecBadDest, SpecBadCode}
RouteSpecs == GoodSpecs \cup BadSpecs

RouteLists(n) == UNION {[1..k -> RouteSpecs] : k \in 0..n}

\* one route whose destination is a bare host, a URL with a scheme, or a
\* bare host with a path
DestSpecs == {SpecExample, SpecSamePattern, SpecBlog}
DestLists == {<<s>> : s \in DestSpecs}

Queries == {<<>>, <<"x=1">>}
\* the requests clients send: the matching host with each path (one of them
\* nested), with and without a query, and another host
Requests ==
  {[Host |-> "www.example.com", Path |-> <<"/", "foo">>,      RawQuery |-> <<"x=1">>],
   [Host |-> "www.example.com", Path |-> <<"/", "bar", "/">>, RawQuery |-> <<>>],
   [Host |-> "www.example.com", Path |-> <<"/">>,             RawQuery |-> <<>>],
   [Host |-> "www.example.com", Path |-> <<"/", "foo", "/", "bar", "/">>, RawQuery |-> <<>>],
   [Host |-> "other.com",       Path |-> <<"/">>,             RawQuery |-> <<>>]}
NoRequest == [Host |-> "", Path |-> <<>>, RawQuery |-> <<>>]

Signals == {"SIGINT", "SIGTERM"}
SigNum(sig) == IF sig = "SIGINT" THEN 2 ELSE 15

\* exit codes of the wrapped child
ChildCodes == {0, 3}

Handlers == 1..MaxHandlers

\* ------------------------------------------------------------ state
VARIABLES
  prog,           \* which program runs
  command,        \* os.Args: "", "wrap" or an unrecognized command
  portEnv,        \* $PORT
  wrapPort,       \* wrap -port
  wrapHasCmd,     \* wrap: a command line was given
  routeSpecs,     \* the -route flags / ROUTE_ variables, in order
  pc,             \* the main goroutine: start, routes, listen, serving
  ri,             \* index of the next route specification to load
  hasErr,         \* main's hasErr
  table,          \* the matcher: pattern -> *Route (the shared route objects)
  defaultHandler, \* Redirector.defaultHandler is set (the reverse proxy)
  listening,      \* the HTTP listener was started
  exited,         \* the process is gone
  exitCode,       \* its exit status
  exitBy,         \* which event ended it
  hpc,            \* per handler: idle, lookup, exec, setpath, query, redirect, done
  hreq,           \* per handler: its request
  hroute,         \* per handler: the pattern of the route Lookup returned
  htmp,           \* per handler: the value of path.Join before it is stored
  hout,           \* per handler: the responses written, in order
  nreq,           \* requests accepted so far
  sigPc,          \* default mode's signal goroutine: none, notify, wait
  notified,       \* signal.Notify was called
  chanSig,        \* chanSig: the buffered signals, each with its index in sigLog
  sigLog,         \* per signal delivered to the parent: was the child running, its fate
  wpc,            \* wrap goroutine: none, notify, run, start, wait
  relayOn,        \* the relay goroutine of WrapCommand.Run was started
  cmdProcess,     \* wc.cmd.Process is set
  child,          \* created, running, exited, signaled, failed
  childCode       \* the child's exit code once exited

inputs == <<prog, command, portEnv, wrapPort, wrapHasCmd, routeSpecs>>
mainv  == <<pc, ri, hasErr>>
tablev == <<table, defaultHandler, listening>>
exitv  == <<exited, exitCode, exitBy>>
hvars  == <<hpc, hreq, hroute, htmp, hout>>
reqv   == <<hvars, nreq>>
sigv   == <<sigPc, notified, chanSig, sigLog>>
wrapv  == <<wpc, relayOn, cmdProcess, child, childCode>>
vars   == <<inputs, mainv, tablev, exitv, reqv, sigv, wrapv>>

HandlersIdle ==
  /\ hpc    = [h \in Handlers |-> "idle"]
  /\ hreq   = [h \in Handlers |-> NoRequest]
  /\ hroute = [h \in Handlers |-> <<>>]
  /\ htmp   = [h \in Handlers |-> <<>>]
  /\ hout   = [h \in Handlers |-> <<>>]

InitWith(progs, commands, portEnvs, lists) ==
  /\ prog \in progs
  /\ command \in (IF prog = "standalone" THEN {""} ELSE commands)
  /\ portEnv \in (IF command = "wrap" THEN portEnvs ELSE {<<>>})
  /\ wrapPort \in (IF command = "wrap" THEN WrapPorts ELSE {DefaultWrapPort})
  /\ wrapHasCmd \in (IF command = "wrap" THEN BOOLEAN ELSE {TRUE})
  /\ routeSpecs \in lists
  /\ pc = IF prog = "redirector" THEN "start" ELSE "routes"
  /\ ri = 1
  /\ hasErr = FALSE
  /\ table = <<>>
  /\ defaultHandler = FALSE
  /\ listening = FALSE
  /\ exited = FALSE
  /\ exitCode = 0
  /\ exitBy = "none"
  /\ HandlersIdle
  /\ nreq = 0
  /\ sigPc = "none"
  /\ notified = FALSE
  /\ chanSig = <<>>
  /\ sigLog = <<>>
  /\ wpc = "none"
  /\ relayOn = FALSE
  /\ cmdProcess = FALSE
  /\ child = "created"
  /\ childCode = 0

\* os.Exit(code), a panic, or death by a signal: the process and every
\* goroutine of it are gone; the exit status is one byte.
Exit(code, by) ==
  /\ exited' = TRUE
  /\ exitCode' = code % 256
  /\ exitBy' = by
  /\ hpc'    = [h \in Handlers |-> "idle"]
  /\ hreq'   = [h \in Handlers |-> NoRequest]
  /\ hroute' = [h \in Handlers |-> <<>>]
  /\ htmp'   = [h \in Handlers |-> <<>>]
  /\ hout'   = [h \in Handlers |-> <<>>]

NoExit == UNCHANGED <<exitv, hvars>>

\* a nil pointer dereference: the Go runtime prints the panic and exits 2
Panic == Exit(2, "panic")

\* the port text main listens on: $PORT, or "8080"
PortString == IF portEnv = <<>> THEN Sprint(DefaultPort) ELSE portEnv

\* the port number the listener binds: the decimal value of the text
ListenPort == Atoi(PortString).n

\* ------------------------------------------------ main of the redirector
\* the command switch of main, up to redirector.New
MainCommand ==
  /\ ~exited /\ prog = "redirector" /\ pc = "start"
  /\ IF command = "" THEN
       /\ sigPc' = "notify"
       /\ pc' = "routes"
       /\ NoExit
       /\ UNCHANGED <<defaultHandler, wpc>>
     ELSE IF command = "wrap" THEN
       IF ~wrapHasCmd \/ Sprint(wrapPort) = PortString THEN
         /\ Exit(1, "config")
         /\ UNCHANGED <<sigPc, pc, defaultHandler, wpc>>
       ELSE
         /\ defaultHandler' = TRUE
         /\ wpc' = "notify"
         /\ pc' = "routes"
         /\ NoExit
         /\ UNCHANGED sigPc
     ELSE
       /\ Exit(1, "config")
       /\ UNCHANGED <<sigPc, pc, defaultHandler, wpc>>
  /\ UNCHANGED <<inputs, nreq, ri, hasErr, table, listening, notified, chanSig, sigLog,
                 relayOn, cmdProcess, child, childCode>>

\* one iteration of main's loop over routes: NewRoute, then AddRoute with
\* whatever NewRoute returned; AddRoute reads route.Pattern of a nil route
\* when NewRoute failed, which panics.
MainAddRoute ==
  /\ ~exited /\ prog = "redirector" /\ pc = "routes" /\ ri <= Len(routeSpecs)
  /\ LET r == NewRoute(routeSpecs[ri]) IN
     IF ~r.ok THEN
       /\ Panic
       /\ UNCHANGED <<ri, hasErr, table>>
     ELSE
       LET a == AddRoute(table, r.route) IN
       /\ table' = a.table
       /\ hasErr' = (hasErr \/ a.err)
       /\ ri' = ri + 1
       /\ NoExit
  /\ UNCHANGED <<inputs, nreq, pc, defaultHandler, listening, sigv, wrapv>>

\* after the loop: if hasErr { os.Exit(1) }
MainCheck ==
  /\ ~exited /\ prog = "redirector" /\ pc = "routes" /\ ri > Len(routeSpecs)
  /\ IF hasErr
     THEN Exit(1, "config") /\ UNCHANGED pc
     ELSE pc' = "listen" /\ NoExit
  /\ UNCHANGED <<inputs, nreq, ri, hasErr, tablev, sigv, wrapv>>

\* http.ListenAndServe: the bind succeeds, or fails and main exits 1
MainListen ==
  /\ ~exited /\ prog = "redirector" /\ pc = "listen"
  /\ \E ok \in BOOLEAN :
       IF ok
       THEN listening' = TRUE /\ pc' = "serving" /\ NoExit
       ELSE Exit(1, "listen") /\ UNCHANGED <<listening, pc>>
  /\ UNCHANGED <<inputs, nreq, ri, hasErr, table, defaultHandler, sigv, wrapv>>

\* ------------------------------------------- main of the standalone program
\* one ROUTE_ variable: a parse error exits 1; the result of matcher.Add is dropped
StandaloneAddRoute ==
  /\ ~exited /\ prog = "standalone" /\ pc = "routes" /\ ri <= Len(routeSpecs)
  /\ LET r == NewRoute(routeSpecs[ri]) IN
     IF ~r.ok THEN
       /\ Exit(1, "config")
       /\ UNCHANGED <<ri, table>>
     ELSE
       /\ table' = TrieAdd(table, r.route.Pattern, r.route).table
       /\ ri' = ri + 1
       /\ NoExit
  /\ UNCHANGED <<inputs, nreq, pc, hasErr, defaultHandler, listening, sigv, wrapv>>

\* log.Fatal(http.ListenAndServe(port, mux))
StandaloneListen ==
  /\ ~exited /\ prog = "standalone" /\ pc = "routes" /\ ri > Len(routeSpecs)
  /\ \E ok \in BOOLEAN :
       IF ok
       THEN listening' = TRUE /\ pc' = "serving" /\ NoExit
       ELSE Exit(1, "listen") /\ UNCHANGED <<listening, pc>>
  /\ UNCHANGED <<inputs, nreq, ri, hasErr, table, defaultHandler, sigv, wrapv>>

\* ------------------------------------------------------------ responses
Redirect(status, location) ==
  [kind |-> "redirect", status |-> status, location |-> location]
NotFound  == [kind |-> "notfound", status |-> 404, location |-> <<>>]
ServerError == [kind |-> "error", status |-> 500, location |-> <<>>]
\* the request was handed to defaultHandler.ServeHTTP (the reverse proxy)
Proxied   == [kind |-> "proxy", status |-> 0, location |-> <<>>]

\* the server accepts a request and runs the handler in a goroutine of its own
HandlerAccept(h) ==
  /\ ~exited /\ listening /\ hpc[h] \in {"idle", "done"} /\ nreq < MaxRequests
  /\ \E req \in Requests : hreq' = [hreq EXCEPT ![h] = req]
  /\ hpc' = [hpc EXCEPT ![h] = "lookup"]
  /\ hroute' = [hroute EXCEPT ![h] = <<>>]
  /\ htmp' = [htmp EXCEPT ![h] = <<>>]
  /\ hout' = [hout EXCEPT ![h] = <<>>]
  /\ nreq' = nreq + 1
  /\ UNCHANGED <<inputs, mainv, tablev, exitv, sigv, wrapv>>

\* a miss that ignores the default handler
HandlerMissNotFound(hasDefault) == <<NotFound>>

\* (*Redirector).Handler on a request that matches no route
HandlerMiss(hasDefault) == IF hasDefault THEN <<Proxied>> ELSE <<NotFound>>

\* (*Redirector).Handler up to route.Execute
Handler(h) ==
  /\ ~exited /\ prog = "redirector" /\ hpc[h] = "lookup"
  /\ LET lk == TrieLookup(table, requestToRoutePattern(hreq[h])) IN
     IF ~lk.ok THEN
       /\ hout' = [hout EXCEPT ![h] = @ \o HandlerMiss(defaultHandler)]
       /\ hpc' = [hpc EXCEPT ![h] = "done"]
       /\ UNCHANGED hroute
     ELSE IF table[lk.pattern] = NoRoute THEN
       /\ hout' = [hout EXCEPT ![h] = Append(@, ServerError)]
       /\ hpc' = [hpc EXCEPT ![h] = "done"]
       /\ UNCHANGED hroute
     ELSE
       /\ hroute' = [hroute EXCEPT ![h] = lk.pattern]
       /\ hpc' = [hpc EXCEPT ![h] = "exec"]
       /\ UNCHANGED hout
  /\ UNCHANGED <<inputs, nreq, mainv, tablev, exitv, hreq, htmp, sigv, wrapv>>

\* (*Route).Execute of pkg/redirector: dest := r.Destination is the pointer
\* held by the shared route, so every store below is a store to the table.
\* First step: read dest.Path and compute path.Join.
ExecuteJoin(h) ==
  /\ ~exited /\ prog = "redirector" /\ hpc[h] = "exec"
  /\ IF table[hroute[h]].CarryPath THEN
       /\ htmp' = [htmp EXCEPT ![h] =
                     PathJoin(table[hroute[h]].Destination.Path, hreq[h].Path)]
       /\ hpc' = [hpc EXCEPT ![h] = "setpath"]
     ELSE
       /\ hpc' = [hpc EXCEPT ![h] = "query"]
       /\ UNCHANGED htmp
  /\ UNCHANGED <<inputs, nreq, mainv, tablev, exitv, hreq, hroute, hout, sigv, wrapv>>

\* dest.Path = <the joined path>
ExecuteSetPath(h) ==
  /\ ~exited /\ prog = "redirector" /\ hpc[h] = "setpath"
  /\ table' = [table EXCEPT ![hroute[h]].Destination.Path = htmp[h]]
  /\ hpc' = [hpc EXCEPT ![h] = "query"]
  /\ UNCHANGED <<inputs, nreq, mainv, defaultHandler, listening, exitv, hreq, hroute,
                 htmp, hout, sigv, wrapv>>

\* if r.CarryQuery { dest.RawQuery = req.URL.RawQuery }
ExecuteQuery(h) ==
  /\ ~exited /\ prog = "redirector" /\ hpc[h] = "query"
  /\ IF table[hroute[h]].CarryQuery
     THEN table' = [table EXCEPT ![hroute[h]].Destination.RawQuery = hreq[h].RawQuery]
     ELSE UNCHANGED table
  /\ hpc' = [hpc EXCEPT ![h] = "redirect"]
  /\ UNCHANGED <<inputs, nreq, mainv, defaultHandler, listening, exitv, hreq, hroute,
                 htmp, hout, sigv, wrapv>>

\* http.Redirect(w, req, dest.String(), r.Code)
ExecuteRedirect(h) ==
  /\ ~exited /\ prog = "redirector" /\ hpc[h] = "redirect"
  /\ hout' = [hout EXCEPT ![h] =
                Append(@, Redirect(table[hroute[h]].Code,
                                   UrlString(table[hroute[h]].Destination)))]
  /\ hpc' = [hpc EXCEPT ![h] = "done"]
  /\ UNCHANGED <<inputs, nreq, mainv, tablev, exitv, hreq, hroute, htmp, sigv, wrapv>>

\* (*route).Execute of the standalone program: dest := *r.dest is a copy
ExecuteCopy(route, req) ==
  LET d1 == IF route.CarryPath
            THEN [route.Destination EXCEPT !.Path = PathJoin(@, req.Path)]
            ELSE route.Destination
      d2 == IF route.CarryQuery THEN [d1 EXCEPT !.RawQuery = req.RawQuery] ELSE d1
  IN Redirect(route.Code, UrlString(d2))

\* handle of the standalone program; nothing it runs writes shared state
StandaloneHandle(h) ==
  /\ ~exited /\ prog = "standalone" /\ hpc[h] = "lookup"
  /\ LET lk == TrieLookup(table, requestToRoutePattern(hreq[h])) IN
     IF ~lk.ok THEN
       /\ hout' = [hout EXCEPT ![h] = Append(@, NotFound)]
       /\ UNCHANGED hroute
     ELSE IF table[lk.pattern] = NoRoute THEN
       /\ hout' = [hout EXCEPT ![h] = Append(@, ServerError)]
       /\ UNCHANGED hroute
     ELSE
       /\ hroute' = [hroute EXCEPT ![h] = lk.pattern]
       /\ hout' = [hout EXCEPT ![h] = Append(@, ExecuteCopy(table[lk.pattern], hreq[h]))]
  /\ hpc' = [hpc EXCEPT ![h] = "done"]
  /\ UNCHANGED <<inputs, nreq, mainv, tablev, exitv, hreq, htmp, sigv, wrapv>>

\* ------------------------------------------------------------ signals
SetFate(i, fate) == [sigLog EXCEPT ![i].fate = fate]

\* The OS delivers a signal to the parent.  Before signal.Notify the default
\* action kills the process (status 128 + signal number, as a shell reports
\* it).  After it, os/signal does a non-blocking send into chanSig, so a
\* signal that finds the buffer full is dropped.
Deliver(sig) ==
  /\ ~exited /\ Len(sigLog) < MaxSignals
  /\ LET entry(fate) == [running |-> (child = "running"), fate |-> fate] IN
     IF ~notified THEN
       /\ sigLog' = Append(sigLog, entry("killed"))
       /\ Exit(128 + SigNum(sig), "killed")
       /\ UNCHANGED chanSig
     ELSE IF Len(chanSig) < ChanSigCap THEN
       /\ sigLog' = Append(sigLog, entry("queued"))
       /\ chanSig' = Append(chanSig, [sig |-> sig, id |-> Len(sigLog) + 1])
       /\ NoExit
     ELSE
       /\ sigLog' = Append(sigLog, entry("dropped"))
       /\ NoExit
       /\ UNCHANGED chanSig
  /\ UNCHANGED <<inputs, nreq, mainv, tablev, sigPc, notified, wrapv>>

\* default mode: signal.Notify(chanSig, os.Interrupt, syscall.SIGTERM)
SigNotify ==
  /\ ~exited /\ sigPc = "notify"
  /\ notified' = TRUE
  /\ sigPc' = "wait"
  /\ UNCHANGED <<inputs, nreq, mainv, tablev, exitv, hvars, chanSig, sigLog, wrapv>>

\* default mode: sig := <-chanSig; os.Exit(0)
SigExit ==
  /\ ~exited /\ sigPc = "wait" /\ chanSig # <<>>
  /\ sigLog' = SetFate(Head(chanSig).id, "handled")
  /\ chanSig' = Tail(chanSig)
  /\ Exit(0, "signal")
  /\ UNCHANGED <<inputs, nreq, mainv, tablev, sigPc, notified, wrapv>>

\* ------------------------------------------------ the wrap goroutine
\* signal.Notify(chanSig): every signal
WrapNotify ==
  /\ ~exited /\ wpc = "notify"
  /\ notified' = TRUE
  /\ wpc' = "run"
  /\ UNCHANGED <<inputs, nreq, mainv, tablev, exitv, hvars, sigPc, chanSig, sigLog,
                 relayOn, cmdProcess, child, childCode>>

\* WrapCommand.Run: the relay goroutine is started before cmd.Run
WrapRun ==
  /\ ~exited /\ wpc = "run"
  /\ relayOn' = TRUE
  /\ wpc' = "start"
  /\ UNCHANGED <<inputs, nreq, mainv, tablev, exitv, hvars, sigv, cmdProcess, child, childCode>>

\* cmd.Run, first half (cmd.Start): the spawn succeeds and sets cmd.Process,
\* or fails and leaves it nil
WrapStart ==
  /\ ~exited /\ wpc = "start"
  /\ \E ok \in BOOLEAN :
       /\ child' = IF ok THEN "running" ELSE "failed"
       /\ cmdProcess' = ok
  /\ wpc' = "wait"
  /\ UNCHANGED <<inputs, nreq, mainv, tablev, exitv, hvars, sigv, relayOn, childCode>>

\* the child exits with a code
ChildExit ==
  /\ ~exited /\ child = "running"
  /\ \E c \in ChildCodes : childCode' = c
  /\ child' = "exited"
  /\ UNCHANGED <<inputs, nreq, mainv, tablev, exitv, hvars, sigv, wpc, relayOn, cmdProcess>>

\* the child is terminated by a signal
ChildSignaled ==
  /\ ~exited /\ child = "running"
  /\ child' = "signaled"
  /\ UNCHANGED <<inputs, nreq, mainv, tablev, exitv, hvars, sigv, wpc, relayOn, cmdProcess,
                 childCode>>

\* (*exec.ExitError).ExitCode(): the exit code, or -1 when a signal ended the process
ExitErrorCode(ch, code) == IF ch = "exited" THEN code ELSE 0 - 1

\* the exit code the wrap goroutine passes to os.Exit after wc.Run returned:
\* err == nil for a child that exited 0, an *exec.ExitError for a child that
\* exited non-zero or was signaled, another error for a failed spawn
WrapExitCode(ch, code) ==
  IF ch = "exited" /\ code = 0 THEN 0
  ELSE IF ch \in {"exited", "signaled"} THEN ExitErrorCode(ch, code)
  ELSE 1

\* cmd.Run returned (cmd.Wait, or the failed spawn): os.Exit
WrapExit ==
  /\ ~exited /\ wpc = "wait" /\ child \in {"exited", "signaled", "failed"}
  /\ Exit(WrapExitCode(child, childCode), "child")
  /\ UNCHANGED <<inputs, nreq, mainv, tablev, sigv, wrapv>>

\* the relay: for sig := range chanSig { wc.cmd.Process.Signal(sig) }.
\* cmd.Process is nil until the spawn succeeded, and the call on a nil
\* process panics; the error of signalling a finished process is dropped.
Relay ==
  /\ ~exited /\ relayOn /\ chanSig # <<>>
  /\ chanSig' = Tail(chanSig)
  /\ IF ~cmdProcess THEN
       /\ sigLog' = SetFate(Head(chanSig).id, "panic")
       /\ Panic
     ELSE
       /\ sigLog' = SetFate(Head(chanSig).id,
                            IF child = "running" THEN "forwarded" ELSE "finished")
       /\ NoExit
  /\ UNCHANGED <<inputs, nreq, mainv, tablev, sigPc, notified, wrapv>>

\* ------------------------------------------------------------ specifications
Startup ==
  \/ MainCommand
  \/ MainAddRoute
  \/ MainCheck
  \/ MainListen
  \/ StandaloneAddRoute
  \/ StandaloneListen

Serve(h) ==
  \/ HandlerAccept(h)
  \/ Handler(h)
  \/ ExecuteJoin(h)
  \/ ExecuteSetPath(h)
  \/ ExecuteQuery(h)
  \/ ExecuteRedirect(h)
  \/ StandaloneHandle(h)

Supervise ==
  \/ WrapNotify
  \/ WrapRun
  \/ WrapStart
  \/ ChildExit
  \/ ChildSignaled
  \/ WrapExit
  \/ Relay

\* Both programs without a command: the route table and the redirect
\* executor under concurrent requests, no signal arriving.
Init == InitWith(Progs, {""}, {<<>>}, RouteLists(MaxRoutes))

Next ==
  \/ Startup
  \/ SigNotify
  \/ \E h \in Handlers : Serve(h)

Spec == Init /\ [][Next]_vars

\* Every command of the redirector, with signals and the wrapped child; one
\* request in flight.
InitWrap == InitWith(Progs, Commands, PortEnvs, RouteLists(1))

NextWrap ==
  \/ Startup
  \/ SigNotify
  \/ SigExit
  \/ \E sig \in Signals : Deliver(sig)
  \/ Supervise
  \/ Serve(1)

SpecWrap == InitWrap /\ [][NextWrap]_vars

\* Both programs without a command, one request in flight at a time: route
\* loading, lookup and the redirect of each request of a sequence.
NextSeq ==
  \/ Startup
  \/ SigNotify
  \/ Serve(1)

SpecSeq == Init /\ [][NextSeq]_vars

\* Both programs with one route, for each form of destination.
InitDest == InitWith(Progs, {""}, {<<>>}, DestLists)

SpecDest == InitDest /\ [][Next]_vars

\* ------------------------------------------------------------ claims
\* the index of the first specification that gives pattern p
FirstIndex(p) ==
  CHOOSE i \in 1..Len(routeSpecs) :
    /\ NewRoute(routeSpecs[i]).ok
    /\ NewRoute(routeSpecs[i]).route.Pattern = p
    /\ \A k \in 1..(i - 1) :
         ~(NewRoute(routeSpecs[k]).ok /\ NewRoute(routeSpecs[k]).route.Pattern = p)

\* the route of pattern p as NewRoute created it
CreatedRoute(p) == NewRoute(routeSpecs[FirstIndex(p)]).route

\* the destination a redirect for req is said to carry: the configured
\* destination, its path joined with the request's path when carry_path is
\* set, its query replaced by the request's query when carry_query is set
ClaimedDestination(route, req) ==
  [Scheme   |-> route.Destination.Scheme,
   Host     |-> route.Destination.Host,
   Path     |-> IF route.CarryPath
                THEN PathJoin(route.Destination.Path, req.Path)
                ELSE route.Destination.Path,
   RawQuery |-> IF route.CarryQuery THEN req.RawQuery ELSE route.Destination.RawQuery]

Redirected(h) ==
  hpc[h] = "done" /\ Len(hout[h]) = 1 /\ hout[h][1].kind = "redirect"

\* C1: when requests against the same carry-path route run concurrently, the
\* Location of each response holds the configured destination path joined with
\* that request's own path, whatever its query is.
C1_OwnPathOnly ==
  \A h \in Handlers :
    (Redirected(h) /\ CreatedRoute(hroute[h]).CarryPath) =>
      \E q \in Queries \cup {CreatedRoute(hroute[h]).Destination.RawQuery} :
        hout[h][1].location =
          UrlString([ClaimedDestination(CreatedRoute(hroute[h]), hreq[h])
                       EXCEPT !.RawQuery = q])

\* C2: after any sequence of Execute calls every route of the table (its
\* destination, status code and flags) is as NewRoute created it.
C2_RouteUnchanged ==
  \A p \in DOMAIN table : table[p] = CreatedRoute(p)

\* C3: every redirect has the route's status code and, as Location, the
\* configured destination with the request's path joined (carry_path) and the
\* request's query (carry_query).
C3_RedirectAsConfigured ==
  \A h \in Handlers :
    Redirected(h) =>
      /\ hout[h][1].status = CreatedRoute(hroute[h]).Code
      /\ hout[h][1].location =
           UrlString(ClaimedDestination(CreatedRoute(hroute[h]), hreq[h]))

\* some route specification fails to parse, or repeats an earlier pattern
ConfigError ==
  \/ \E i \in 1..Len(routeSpecs) : ~NewRoute(routeSpecs[i]).ok
  \/ \E i, j \in 1..Len(routeSpecs) :
       /\ i < j
       /\ NewRoute(routeSpecs[i]).ok /\ NewRoute(routeSpecs[j]).ok
       /\ NewRoute(routeSpecs[i]).route.Pattern = NewRoute(routeSpecs[j]).route.Pattern

\* C4: startup is fail-fast: with a route that fails to parse or repeats a
\* pattern, the listener is never started and the process exits with code 1.
C4_FailFast ==
  ConfigError =>
    /\ ~listening
    /\ pc \notin {"listen", "serving"}
    /\ (exited => exitCode = 1)

\* C5: a handled request has exactly one outcome: the redirect when its key
\* matches a route, the fallback handler when it matches none and a fallback
\* is registered, a 404 when it matches none and there is no fallback; a
\* request still being handled has none yet.
C5_OneOutcome ==
  \A h \in Handlers :
    /\ (hpc[h] # "done" => hout[h] = <<>>)
    /\ (hpc[h] = "done" =>
          /\ Len(hout[h]) = 1
          /\ hout[h][1].kind =
               IF TrieLookup(table, requestToRoutePattern(hreq[h])).ok THEN "redirect"
               ELSE IF defaultHandler THEN "proxy"
               ELSE "notfound"
          /\ (hout[h][1].kind = "notfound" => hout[h][1].status = 404))

\* C5 witness: in wrap mode a request that matches no route was handed to the
\* fallback handler.
C5_Witness ==
  \E h \in Handlers :
    /\ hpc[h] = "done" /\ hout[h] = <<Proxied>>
    /\ command = "wrap"
    /\ ~TrieLookup(table, requestToRoutePattern(hreq[h])).ok

\* specifications i < j, both loaded, give the same pattern, i the first of it
Duplicate(i, j) ==
  /\ i < j /\ j < ri
  /\ NewRoute(routeSpecs[i]).route.Pattern = NewRoute(routeSpecs[j]).route.Pattern
  /\ FirstIndex(NewRoute(routeSpecs[i]).route.Pattern) = i

\* C6: inserting a pattern already in the table fails (AddRoute reports it)
\* and leaves the first route in effect: the table still holds it, and every
\* later lookup that matches the pattern is answered with the first route.
C6_DuplicateKeepsFirst ==
  \A i, j \in 1..Len(routeSpecs) :
    Duplicate(i, j) =>
      LET first == NewRoute(routeSpecs[i]).route IN
      /\ (prog = "redirector" => hasErr)
      /\ table[first.Pattern] = first
      /\ \A h \in Handlers :
           (hpc[h] = "done" /\ hroute[h] = first.Pattern) =>
             hout[h] = <<Redirect(first.Code,
                                  UrlString(ClaimedDestination(first, hreq[h])))>>

\* C6 witness: a pattern was inserted twice with different routes and a later
\* request that matches it has been answered.
C6_Witness ==
  \E i, j \in 1..Len(routeSpecs) :
    /\ Duplicate(i, j)
    /\ NewRoute(routeSpecs[i]).route # NewRoute(routeSpecs[j]).route
    /\ \E h \in Handlers :
         hpc[h] = "done" /\ hroute[h] = NewRoute(routeSpecs[i]).route.Pattern

\* C7: in wrap mode with the child's port equal to the port the service
\* listens on, startup fails with exit code 1 before the child is spawned and
\* before any listener is started.
C7_PortClashIsFatal ==
  (prog = "redirector" /\ command = "wrap" /\ wrapHasCmd /\ wrapPort = ListenPort) =>
    /\ child = "created"
    /\ ~listening
    /\ wpc = "none"
    /\ (pc # "start" => (exited /\ exitCode = 1))

\* C8: when the wrapped child ends the service, the exit code is 0 for a
\* child that exited 0, c for a child that exited with c # 0, and 1 for a
\* child with no exit code (failed spawn, terminated by a signal).
C8_ExitMirrorsChild ==
  (exited /\ exitBy = "child") =>
    exitCode = IF child = "exited" THEN childCode ELSE 1

\* C9: no signal delivered to the parent while the child runs is lost: it
\* waits in the relay's channel until the relay forwards it.
C9_NoSignalLost ==
  \A i \in 1..Len(sigLog) : sigLog[i].running => sigLog[i].fate # "dropped"

\* C10: a service whose startup is complete (listener started, signal
\* handling installed) ends only by a signal in default mode, with exit code
\* 0, or by the exit of the wrapped child in wrap mode; a signal in wrap mode
\* does not end it.
C10_TwoTerminalEvents ==
  (prog = "redirector" /\ exited /\ listening /\ notified) =>
    \/ (command = "" /\ exitBy = "signal" /\ exitCode = 0)
    \/ (command = "wrap" /\ exitBy = "child")

\* C11: every write to the route table happens before the listener starts:
\* once the listener accepts connections no step changes the table, neither
\* its patterns nor the routes it holds.
C11_WritesBeforeListen == [][listening => table' = table]_vars

\* specifications i and j are both loaded, i gives an exact pattern and j a
\* wildcard pattern that covers it
Overlap(i, j) ==
  /\ i < ri /\ j < ri
  /\ NewRoute(routeSpecs[i]).ok /\ NewRoute(routeSpecs[j]).ok
  /\ LET pi == NewRoute(routeSpecs[i]).route.Pattern
         pj == NewRoute(routeSpecs[j]).route.Pattern
     IN /\ ~IsWildcard(pi)
        /\ IsWildcard(pj)
        /\ IsPrefix(WildcardPrefix(pj), pi)

\* some loaded specification repeats the pattern of an earlier one
SomeDuplicate ==
  \E a, b \in 1..Len(routeSpecs) :
    /\ a < b /\ b < ri
    /\ NewRoute(routeSpecs[a]).route.Pattern = NewRoute(routeSpecs[b]).route.Pattern

\* C12: with an exact pattern and a wildcard pattern covering it both
\* configured, in either order, neither insertion is rejected (an error is
\* reported only for a repeated pattern, both patterns are in the table), and
\* a request whose key is the exact pattern is answered by the exact route.
C12_ExactOverWildcard ==
  \A i, j \in 1..Len(routeSpecs) :
    Overlap(i, j) =>
      LET pi == NewRoute(routeSpecs[i]).route.Pattern
          pj == NewRoute(routeSpecs[j]).route.Pattern
      IN
      /\ {pi, pj} \subseteq DOMAIN table
      /\ (hasErr => SomeDuplicate)
      /\ \A h \in Handlers :
           (hpc[h] = "done" /\ requestToRoutePattern(hreq[h]) = pi) =>
             /\ hroute[h] = pi
             /\ Redirected(h)
             /\ hout[h][1].status = CreatedRoute(pi).Code
             /\ \E q \in Queries \cup {CreatedRoute(pi).Destination.RawQuery} :
                  hout[h][1].location =
                    UrlString([ClaimedDestination(CreatedRoute(pi), hreq[h])
                                 EXCEPT !.RawQuery = q])

\* C12 witness: the wildcard pattern was inserted first, the exact pattern
\* after it, their routes differ in status code, and a request whose key is
\* the exact pattern has been answered.
C12_Witness ==
  \E i, j \in 1..Len(routeSpecs) :
    /\ Overlap(i, j) /\ j < i
    /\ NewRoute(routeSpecs[i]).route.Code # NewRoute(routeSpecs[j]).route.Code
    /\ \E h \in Handlers :
         /\ hpc[h] = "done"
         /\ requestToRoutePattern(hreq[h]) = NewRoute(routeSpecs[i]).route.Pattern

\* the path without its leading and trailing "/" characters: the part of p
\* between a run of "/" at its start and a run of "/" at its end that itself
\* neither starts nor ends with "/"
Stripped(p) ==
  LET n == Len(p)
      c == CHOOSE c \in (1..(n + 1)) \X (0..n) :
             /\ c[1] <= c[2] + 1
             /\ \A k \in 1..(c[1] - 1) : p[k] = "/"
             /\ \A k \in (c[2] + 1)..n : p[k] = "/"
             /\ (c[1] <= c[2] => (p[c[1]] # "/" /\ p[c[2]] # "/"))
  IN SubSeq(p, c[1], c[2])

\* the lookup key the claims give a request
ClaimedKey(req) == <<req.Host, "/">> \o Stripped(req.Path)

\* the patterns of the table that cover a key: the key itself, or a wildcard
\* pattern whose literal part the key extends
Covering(key) ==
  {p \in DOMAIN table :
     p = key \/ (IsWildcard(p) /\ IsPrefix(WildcardPrefix(p), key))}

\* C13: a request to a host whose wildcard pattern host/* is configured is
\* redirected by a pattern that covers its key, whatever its path, nested
\* paths included; a request whose key no pattern covers is answered 404
\* Not Found, with no route executed.
C13_WildcardAndMiss ==
  \A h \in Handlers :
    hpc[h] = "done" =>
      /\ (<<hreq[h].Host, "/", "*">> \in DOMAIN table =>
            /\ Redirected(h)
            /\ hroute[h] \in Covering(ClaimedKey(hreq[h])))
      /\ (Covering(ClaimedKey(hreq[h])) = {} =>
            /\ hout[h] = <<NotFound>>
            /\ hroute[h] = <<>>)

\* C13 witness: a request with a nested path was redirected by the wildcard
\* pattern of its host, no exact pattern being equal to its key.
C13_Witness ==
  \E h \in Handlers :
    /\ hpc[h] = "done"
    /\ Len(PathElems(hreq[h].Path)) >= 2
    /\ ClaimedKey(hreq[h]) \notin DOMAIN table
    /\ hroute[h] = <<hreq[h].Host, "/", "*">>
    /\ Redirected(h)

\* the paths that differ from p only in leading or trailing "/" characters
SlashVariants(p) ==
  {pre \o Stripped(p) \o post : pre \in {<<>>, <<"/">>, <<"/", "/">>},
                                post \in {<<>>, <<"/">>, <<"/", "/">>}}

\* the handler of h has looked its request up
LookedUp(h) == hpc[h] \notin {"idle", "lookup"}

\* what a lookup of key gives: the pattern found, or none
Found(key) ==
  IF TrieLookup(table, key).ok THEN TrieLookup(table, key).pattern ELSE <<>>

\* C14: the key of a request is its host, "/", and its path without leading
\* and trailing "/" characters: every path that differs from the request's
\* only in such characters gives the same key, and the lookup the handler did
\* gave what a lookup of that key gives.
C14_KeyNormalized ==
  \A h \in Handlers :
    LookedUp(h) =>
      /\ \A v \in SlashVariants(hreq[h].Path) :
           requestToRoutePattern([hreq[h] EXCEPT !.Path = v]) = ClaimedKey(hreq[h])
      /\ hroute[h] = Found(ClaimedKey(hreq[h]))

\* C14 witness: a request whose path ends with "/" was redirected by an exact
\* or wildcard pattern, the one a lookup of the path without it gives.
C14_Witness ==
  \E h \in Handlers :
    /\ hpc[h] = "done" /\ Redirected(h)
    /\ Stripped(hreq[h].Path) # <<>>
    /\ hreq[h].Path = <<"/">> \o Stripped(hreq[h].Path) \o <<"/">>
    /\ hroute[h] =
         Found(requestToRoutePattern([hreq[h] EXCEPT !.Path = Stripped(hreq[h].Path)]))

\* a quote is left open: the number of quote characters is odd
Unbalanced(s) == Cardinality({i \in 1..Len(s) : s[i] = "'"}) % 2 = 1

\* the tokens of a specification, and its flag tokens
Tokens(s) == ShellSplit(s).parts
Flags(s) == SubSeq(Tokens(s), 3, Len(Tokens(s)))

\* the flag tokens code=<value>, by position
CodeFlags(s) == {k \in 1..Len(Flags(s)) : Flags(s)[k] # <<>> /\ Flags(s)[k][1] = "code="}

\* some code= flag has a value that is not a decimal number
BadCode(s) ==
  \E k \in CodeFlags(s) :
    LET v == Tail(Flags(s)[k]) IN v = <<>> \/ \E i \in 1..Len(v) : v[i] \notin {Digits[d] : d \in 1..10}

\* the errors the claim names: open quote, fewer than two tokens, bad code=
ErrorClaimed(s) ==
  \/ Unbalanced(s)
  \/ Len(Tokens(s)) < 2
  \/ BadCode(s)

\* the destination token is not a URL
BadDestination(s) == ~Unbalanced(s) /\ Len(Tokens(s)) >= 2 /\ ~UrlParse(Tokens(s)[2]).ok

\* the status code the claim gives the route: the last code= value, or 302
ClaimedCode(s) ==
  IF CodeFlags(s) = {} THEN 302
  ELSE LET k == CHOOSE k \in CodeFlags(s) : \A m \in CodeFlags(s) : m <= k
       IN Atoi(Tail(Flags(s)[k])).n

\* the route of the table is the one the claim describes for specification s
AsClaimed(s) ==
  LET pat == Tokens(s)[1] IN
  /\ pat \in DOMAIN table
  /\ table[pat].Pattern = pat
  /\ table[pat].Code = ClaimedCode(s)
  /\ table[pat].CarryPath = (\E k \in 1..Len(Flags(s)) : Flags(s)[k] = <<"path">>)
  /\ table[pat].CarryQuery = (\E k \in 1..Len(Flags(s)) : Flags(s)[k] = <<"query">>)

\* startup ended in the route loop: NewRoute returned an error for
\* specification ri
RejectedAt == exited /\ pc = "routes" /\ ri <= Len(routeSpecs)

\* what NewRoute is said to do, for a given reading of "error"
NewRouteAsClaimed(IsError(_)) ==
  /\ (RejectedAt =>
        /\ IsError(routeSpecs[ri])
        /\ NewRoute(routeSpecs[ri]).route = NoRoute)
  /\ \A i \in 1..Len(routeSpecs) :
       i < ri =>
         /\ ~IsError(routeSpecs[i])
         /\ (FirstIndex(Tokens(routeSpecs[i])[1]) = i => AsClaimed(routeSpecs[i]))

\* C15 as stated: NewRoute returns an error and no route for an open quote,
\* fewer than two tokens or a code= value that is no integer, and otherwise a
\* route with token 0 as pattern, code 302 unless code= is given, the carry
\* flags set by the tokens path and query, other flag tokens ignored.
C15_NewRoute == NewRouteAsClaimed(ErrorClaimed)

\* C15 amended: as C15, with a destination that is not a URL as a fourth
\* error.
C15_NewRouteAmended ==
  NewRouteAsClaimed(LAMBDA s : ErrorClaimed(s) \/ BadDestination(s))

\* C15 witness: a specification with a quoted destination and an unrecognized
\* flag token was loaded with code 302, and the next one was rejected for its
\* destination.
C15_Witness ==
  /\ RejectedAt
  /\ BadDestination(routeSpecs[ri])
  /\ \E i \in 1..(ri - 1) :
       /\ \E k \in 1..Len(Flags(routeSpecs[i])) :
            Flags(routeSpecs[i])[k] \notin {<<"path">>, <<"query">>}
            /\ k \notin CodeFlags(routeSpecs[i])
       /\ AsClaimed(routeSpecs[i])
       /\ table[Tokens(routeSpecs[i])[1]].Code = 302

\* the destination token of the specification that gave pattern p
DestToken(p) == Tokens(routeSpecs[FirstIndex(p)])[2]

\* the scheme is https when the token names none and the named one otherwise;
\* the bare host example.com reads https://example.com, and a destination
\* with a scheme reads as it was written
SchemeDefaulted(p) ==
  LET tok == DestToken(p)
      d   == CreatedRoute(p).Destination
  IN /\ d.Scheme = (IF IndexOf(tok, "://") = 0 THEN "https" ELSE tok[1])
     /\ (tok = <<"example.com">> => UrlString(d) = <<"https", "://", "example.com">>)
     /\ (IndexOf(tok, "://") # 0 => UrlString(d) = tok)

\* the scheme part of C16 alone
C16_SchemeOnly == \A p \in DOMAIN table : SchemeDefaulted(p)

\* C16: every loaded destination has its scheme defaulted to https or left
\* as written, and with the bare destination example.com/blog and carry_path
\* the first request, for the path /foo, is redirected to
\* https://example.com/blog/foo.
C16_DestinationDefaults ==
  /\ C16_SchemeOnly
  /\ \A h \in Handlers :
       (/\ Redirected(h)
        /\ nreq = 1
        /\ DestToken(hroute[h]) = <<"example.com", "/", "blog">>
        /\ CreatedRoute(hroute[h]).CarryPath
        /\ hreq[h].Path = <<"/", "foo">>)
       => hout[h][1].location =
            <<"https", "://", "example.com", "/", "blog", "/", "foo">>

\* C17: the relay never uses the child's process handle before the spawn
\* set it: no signal it receives ends in the panic of a call on the unset
\* handle.
C17_RelayAfterSpawn ==
  \A i \in 1..Len(sigLog) : sigLog[i].fate # "panic"

\* startup ended in the route loop of the redirector: a specification failed
\* to parse, or a pattern was repeated
RouteErrorExit ==
  /\ prog = "redirector" /\ exited /\ pc = "routes"
  /\ exitBy \in {"config", "panic"}
  /\ \A i \in 1..Len(sigLog) : sigLog[i].fate # "panic"

\* C18: in wrap mode, when the run ends in a route configuration error the
\* child has never been running: it was not spawned, or its spawn failed.
C18_ChildAfterRoutes ==
  (command = "wrap" /\ RouteErrorExit) => child \in {"created", "failed"}

\* C19: every redirect of the redirector is the one the standalone
\* program's Execute emits for the same route configuration and the same
\* request: the same status code and the same Location.
C19_ExecutorsEquivalent ==
  \A h \in Handlers :
    (prog = "redirector" /\ Redirected(h)) =>
      hout[h][1] = ExecuteCopy(CreatedRoute(hroute[h]), hreq[h])

\* what C19 is compared with: every redirect of the standalone program is
\* Execute applied to the route as configured
C19_StandaloneAsConfigured ==
  \A h \in Handlers :
    (prog = "standalone" /\ Redirected(h)) =>
      hout[h][1] = ExecuteCopy(CreatedRoute(hroute[h]), hreq[h])

====
